---- MODULE Spec2Model ----
(***************************************************************************)
(* Model of the pygenesys database builder (pygenesys/utils/db_creator.py). *)
(* The build is a single-threaded pipeline: each create_* function builds   *)
(* its list of rows (entries), creates its table and bulk-inserts the rows. *)
(* Years are integers; real values (capacity factors, distributions,        *)
(* efficiencies, costs) are integers in hundredths, so the interval [0,1]   *)
(* is 0..100.  A label f'S{i+1}' is the pair <<"S", i+1>>.  The slice weight  *)
(* segfrac is the fraction <<numerator, denominator>>.                      *)
(***************************************************************************)
EXTENDS Integers, Sequences, FiniteSets, TLC

\* ------------------------------------------------------------------ bounds
MaxPeriods == 2      \* longest future-year sequence of the vintage specification
HorizonLen == 4      \* longest future-year sequence of the time-period specification
MaxRegions == 2      \* most regions of one technology or commodity
MaxTechs   == 2      \* most technologies of a model description
MaxSeasons == 2      \* largest season count
MaxHours   == 3      \* largest hour count

\* ----------------------------------------------------------------- helpers
Range(s) == {s[i] : i \in 1..Len(s)}

Min(a, b) == IF a < b THEN a ELSE b

RECURSIVE Concat(_)
\* concatenation of a sequence of sequences (Python: entries += data)
Concat(ss) == IF ss = <<>> THEN <<>> ELSE Head(ss) \o Concat(Tail(ss))

RECURSIVE SortedSeq(_)
\* the ascending sequence of a finite set of integers (Python: sorted(set(..)))
SortedSeq(S) ==
  IF S = {} THEN <<>>
  ELSE LET m == CHOOSE x \in S : \A y \in S : x =< y
       IN <<m>> \o SortedSeq(S \ {m})

\* itertools.product(A, B) as a list: the last argument varies fastest
product(A, B) ==
  [k \in 1..(Len(A) * Len(B)) |->
     <<A[((k - 1) \div Len(B)) + 1], B[((k - 1) % Len(B)) + 1]>>]

\* ------------------------------------------------------ model description
RegionPool == <<"R1", "R2", "R3", "R4">>
TechPool   == <<"T1", "T2", "T3", "T4">>
Lifetimes  == {0, 5, 10, 20}
Vintages   == {2010, 2030}

\* future years: start 2020, one period every 10 years, n periods
FutureYears(n) == [i \in 1..n |-> 2020 + (i - 1) * 10]

RegionLists == {SubSeq(RegionPool, 1, n) : n \in 1..MaxRegions}

\* an existing-capacity map {vintage: capacity} as the list of its items
CapacityMap(V) == [i \in 1..Cardinality(V) |-> <<SortedSeq(V)[i], 100>>]

\* dict.keys() of an existing-capacity map
Keys(items) == [i \in 1..Len(items) |-> items[i][1]]

\* dict[key] of an existing-capacity map
Lookup(items, key) ==
  LET i == CHOOSE j \in 1..Len(items) : items[j][1] = key IN items[i][2]

\* a cost series {year: cost} over the years of F
CostSeries(F, base) == [y \in Range(F) |-> base + (y - 2000)]

\* the per-region cost maps of a technology: absent altogether ("none"),
\* given for every region ("full"), or empty for the last region ("gap")
CostShapes == {"none", "full", "gap"}

CostMap(shape, regs, F, base) ==
  IF shape = "none" THEN <<>>
  ELSE [r \in Range(regs) |->
          IF shape = "gap" /\ r = regs[Len(regs)]
          THEN <<>>
          ELSE CostSeries(F, base)]

InvestMap(shape, regs) ==
  IF shape = "none" THEN <<>> ELSE [r \in Range(regs) |-> 1000]

\* capacity-factor and distribution inputs: a scalar or a series
Scalar(c) == [kind |-> "scalar", value |-> c]
Series(s) == [kind |-> "list", values |-> s]

Technology(name, regs, life, ecap, shape, F, cf) ==
  [tech_name            |-> name,
   regions              |-> regs,
   tech_lifetime        |-> life,
   existing_capacity    |-> ecap,
   input_comm           |-> [r \in Range(regs) |-> "ethos"],
   output_comm          |-> [r \in Range(regs) |-> "ELC"],
   efficiency           |-> [r \in Range(regs) |-> 100],
   cost_variable        |-> CostMap(shape, regs, F, 0),
   cost_fixed           |-> CostMap(shape, regs, F, 500),
   cost_invest          |-> InvestMap(shape, regs),
   capacity_factor_tech |-> cf,
   units                |-> "GW"]

DemandCommodity(name, demand, distribution) ==
  [comm_name |-> name, units |-> "GWh",
   demand |-> demand, distribution |-> distribution]

\* -------------------------------------------------------------------- state
VARIABLES
  output_db,        \* the path of the database: "reachable" or "unreachable"
  N_seasons,        \* season count of the model description
  N_hours,          \* hour count of the model description
  segfrac,          \* the weight of one time slice, <<numerator, denominator>>
  future_years,     \* the future years (time_horizon of the writers)
  technology_list,  \* the Technology objects
  demand_list,      \* the DemandCommodity objects
  connector,        \* what establish_connection returned: "conn" or "None"
  seasons,          \* list returned by create_time_season
  hours,            \* list returned by create_time_of_day
  created,          \* tables that exist in the store (CREATE TABLE executed)
  entries,          \* per table, the rows its writer handed to executemany
  stored,           \* per table, the committed rows
  first_build,      \* <<>>, or the outcome of the first build of a rebuild
  pc,               \* the writer the build runs next, or "done"
  error             \* "" or the exception that aborted the build

vars == <<output_db, N_seasons, N_hours, segfrac, future_years,
          technology_list, demand_list,
          connector, seasons, hours, created, entries, stored, first_build,
          pc, error>>

description == <<output_db, N_seasons, N_hours, segfrac, future_years,
                 technology_list, demand_list>>

\* the order in which the build calls the writers, once the connection is
\* established: the time structure first, then the parameter tables
Pipeline ==
  <<"time_season", "time_periods", "time_of_day", "SegFrac",
    "Demand", "DemandSpecificDistribution",
    "ExistingCapacity", "CostVariable", "CostFixed", "CostInvest",
    "Efficiency", "CapacityFactorTech">>

Tables == Range(Pipeline)

After(t) ==
  LET i == CHOOSE j \in 1..Len(Pipeline) : Pipeline[j] = t
  IN IF i = Len(Pipeline) THEN "done" ELSE Pipeline[i + 1]

\* the existing years handed to create_time_periods: the de-duplicated,
\* sorted vintage years of all existing-capacity maps strictly before the
\* first future year
existing_years(techs, F) ==
  SortedSeq({v \in UNION {UNION {Range(Keys(techs[i].existing_capacity[r])) :
                                   r \in DOMAIN techs[i].existing_capacity} :
                            i \in 1..Len(techs)} : v < F[1]})

\* -------------------------------------------------------------------- store
\* the PRIMARY KEY columns of each table, by position
PrimaryKey(t) ==
  CASE t = "time_season"                -> <<1>>
    [] t = "time_periods"               -> <<1>>
    [] t = "time_of_day"                -> <<1>>
    [] t = "SegFrac"                    -> <<1, 2>>
    [] t = "Demand"                     -> <<1, 2, 3>>
    [] t = "DemandSpecificDistribution" -> <<1, 2, 3, 4>>
    [] t = "Efficiency"                 -> <<1, 2, 3, 4, 5>>
    [] t = "ExistingCapacity"           -> <<1, 2, 3>>
    [] t = "CostVariable"               -> <<1, 2, 3, 4>>
    [] t = "CostInvest"                 -> <<1, 2, 3>>
    [] t = "CostFixed"                  -> <<1, 2, 3, 4>>
    [] t = "CapacityFactorTech"         -> <<1, 2, 3, 4>>

Key(t, row) == [i \in 1..Len(PrimaryKey(t)) |-> row[PrimaryKey(t)[i]]]

DistinctKeys(t, rows) ==
  \A i, j \in 1..Len(rows) : i # j => Key(t, rows[i]) # Key(t, rows[j])

\* an efficiency of 0 passes the CHECK
Check_zero_efficiency(t, row) ==
  CASE t = "SegFrac"                    -> row[3][1] >= 0 /\ row[3][1] =< row[3][2]
    [] t = "DemandSpecificDistribution" -> row[5] >= 0 /\ row[5] =< 100
    [] t = "CapacityFactorTech"         -> row[5] >= 0 /\ row[5] =< 100
    [] t = "Efficiency"                 -> row[6] >= 0
    [] OTHER                            -> TRUE

\* the CHECK constraint of each table (values in hundredths; segfrac is a
\* fraction with a positive denominator)
Check(t, row) ==
  CASE t = "SegFrac"                    -> row[3][1] >= 0 /\ row[3][1] =< row[3][2]
    [] t = "DemandSpecificDistribution" -> row[5] >= 0 /\ row[5] =< 100
    [] t = "CapacityFactorTech"         -> row[5] >= 0 /\ row[5] =< 100
    [] t = "Efficiency"                 -> row[6] > 0
    [] OTHER                            -> TRUE

\* executemany succeeds: no primary key twice, every CHECK satisfied.
\* Foreign keys are declared but sqlite3 does not enforce them unless
\* PRAGMA foreign_keys is set, which the builder never does.
Accepts(t, rows) ==
  /\ DistinctKeys(t, rows)
  /\ \A i \in 1..Len(rows) : Check(t, rows[i])

\* an exception leaves the writer; the build stops at this writer
Raise(exc) ==
  /\ error' = exc
  /\ UNCHANGED <<pc, created, entries, stored>>

\* cursor = connector.cursor(); cursor.execute(table_command);
\* cursor.executemany(insert_command, rows); connector.commit().
\* None has no attribute cursor; CREATE TABLE fails on a table that exists.
Write(t, rows) ==
  IF connector = "None" THEN Raise("AttributeError")
  ELSE IF t \in created THEN Raise("OperationalError")
  ELSE /\ created' = created \cup {t}
       /\ entries' = [entries EXCEPT ![t] = rows]
       /\ IF Accepts(t, rows)
          THEN /\ stored' = [stored EXCEPT ![t] = rows]
               /\ error' = ""
               /\ pc' = After(t)
          ELSE /\ stored' = stored
               /\ error' = "IntegrityError"
               /\ pc' = pc

Running(t) == pc = t /\ error = ""

\* ------------------------------------------------------------ connection
\* conn = None; try: conn = sqlite3.connect(output_db); except BaseException:
\* print(..); return conn.  A failure to connect is printed, not raised.
establish_connection ==
  /\ pc = "establish_connection"
  /\ error = ""
  /\ connector' = IF output_db = "reachable" THEN "conn" ELSE "None"
  /\ pc' = Pipeline[1]
  /\ UNCHANGED <<description, first_build, seasons, hours, created, entries, stored, error>>

\* -------------------------------------------------------- time structure
\* the labels are numbered from 0
time_season_entries_zero_indexed(n) == [i \in 1..n |-> << <<"S", i - 1>> >>]

\* [[f'S{i+1}'] for i in range(N_seasons)]
time_season_entries(n) == [i \in 1..n |-> << <<"S", i>> >>]

\* the list of labels is returned only when the table has been written
create_time_season ==
  /\ Running("time_season")
  /\ Write("time_season", time_season_entries(N_seasons))
  /\ seasons' = IF error' = "" THEN time_season_entries(N_seasons) ELSE seasons
  /\ UNCHANGED <<description, first_build, connector, hours>>

\* [[f'H{i+1}'] for i in range(N_hours)]
time_of_day_entries(n) == [i \in 1..n |-> << <<"H", i>> >>]

create_time_of_day ==
  /\ Running("time_of_day")
  /\ Write("time_of_day", time_of_day_entries(N_hours))
  /\ hours' = IF error' = "" THEN time_of_day_entries(N_hours) ELSE hours
  /\ UNCHANGED <<description, first_build, connector, seasons>>

\* the slices are taken hour-major and the hour label lands in season_name
segfrac_entries_hours_first(weight, seasons_arg, hours_arg) ==
  LET time_slices == product(hours_arg, seasons_arg)
  IN [k \in 1..Len(time_slices) |->
        <<time_slices[k][1][1], time_slices[k][2][1], weight,
          "fraction of year">>]

\* one row per element of itertools.product(seasons, hours), each with the
\* same weight
segfrac_entries(weight, seasons_arg, hours_arg) ==
  LET time_slices == product(seasons_arg, hours_arg)
  IN [k \in 1..Len(time_slices) |->
        <<time_slices[k][1][1], time_slices[k][2][1], weight,
          "fraction of year">>]

create_segfrac ==
  /\ Running("SegFrac")
  /\ Write("SegFrac", segfrac_entries(segfrac, seasons, hours))
  /\ UNCHANGED <<description, first_build, connector, seasons, hours>>

\* the boundary year after the last future year is not appended
time_periods_entries_unbounded(F, existing) ==
  LET past_horizon ==
        IF Len(existing) = 0
        THEN << <<F[1] - 1, "e">> >>
        ELSE [i \in 1..Len(existing) |-> <<existing[i], "e">>]
      future_horizon == [i \in 1..Len(F) |-> <<F[i], "f">>]
  IN past_horizon \o future_horizon

time_periods_entries(F, existing) ==
  LET past_horizon ==
        IF Len(existing) = 0
        THEN << <<F[1] - 1, "e">> >>
        ELSE [i \in 1..Len(existing) |-> <<existing[i], "e">>]
      future_horizon == [i \in 1..Len(F) |-> <<F[i], "f">>]
  IN past_horizon \o future_horizon \o << <<F[Len(F)] + 1, "f">> >>

create_time_periods ==
  /\ Running("time_periods")
  /\ IF Len(future_years) = 0
     THEN Raise("IndexError")
     ELSE Write("time_periods",
                time_periods_entries(future_years,
                                     existing_years(technology_list, future_years)))
  /\ UNCHANGED <<description, first_build, connector, seasons, hours>>

\* ---------------------------------------------------- vintages and costs
\* the lifetime test admits a vintage whose age equals the lifetime
existing_capacity_data_inclusive(tech, place, first_year) ==
  LET lifetime == tech.tech_lifetime[place]
      Alive(year) == (first_year - year) =< lifetime
      years == SelectSeq(Keys(tech.existing_capacity[place]), Alive)
  IN [i \in 1..Len(years) |->
        <<place, tech.tech_name, years[i],
          Lookup(tech.existing_capacity[place], years[i]), tech.units, "">>]

\* rows of one technology and region: only the vintages that will exist in
\* the first simulated year are kept
existing_capacity_data(tech, place, first_year) ==
  LET lifetime == tech.tech_lifetime[place]
      Alive(year) == (first_year - year) < lifetime
      years == SelectSeq(Keys(tech.existing_capacity[place]), Alive)
  IN [i \in 1..Len(years) |->
        <<place, tech.tech_name, years[i],
          Lookup(tech.existing_capacity[place], years[i]), tech.units, "">>]

existing_capacity_entries(techs, time_horizon) ==
  Concat([i \in 1..Len(techs) |->
    Concat([p \in 1..Len(techs[i].regions) |->
      existing_capacity_data(techs[i], techs[i].regions[p], time_horizon[1])])])

existing_capacity_raises(techs, time_horizon) ==
  IF techs # <<>> /\ time_horizon = <<>> THEN "IndexError"
  ELSE IF \E i \in 1..Len(techs) : \E p \in 1..Len(techs[i].regions) :
            techs[i].regions[p] \notin DOMAIN techs[i].existing_capacity
       THEN "KeyError"
       ELSE ""

create_existing_capacity ==
  /\ Running("ExistingCapacity")
  /\ LET exc == existing_capacity_raises(technology_list, future_years)
         rows == existing_capacity_entries(technology_list, future_years)
     IN IF exc # "" THEN Raise(exc)
        ELSE IF Len(rows) > 0 THEN Write("ExistingCapacity", rows)
        ELSE \* no entries: the table is not created
             /\ pc' = After("ExistingCapacity")
             /\ UNCHANGED <<created, entries, stored, error>>
  /\ UNCHANGED <<description, first_build, connector, seasons, hours>>

\* the candidate vintages of one technology and region
variable_cost_years(tech, place, time_horizon) ==
  IF Len(tech.existing_capacity[place]) > 0
  THEN Keys(tech.existing_capacity[place]) \o time_horizon
  ELSE time_horizon

\* every (year, vintage) pair is kept: the lifetime test is missing
variable_cost_pairs_unfiltered(tech, place, time_horizon) ==
  product(time_horizon, variable_cost_years(tech, place, time_horizon))

\* the (year, vintage) pairs of one technology and region that pass the
\* lifetime test
variable_cost_pairs(tech, place, time_horizon) ==
  LET lifetime == tech.tech_lifetime[place]
      Valid(pair) == (pair[1] - pair[2]) < lifetime
  IN SelectSeq(product(time_horizon,
                       variable_cost_years(tech, place, time_horizon)), Valid)

\* a pair whose vintage is later than its period is not costed
variable_cost_data_vintage_guard(tech, place, time_horizon) ==
  LET NotLater(pair) == pair[2] =< pair[1]
      pairs == SelectSeq(variable_cost_pairs(tech, place, time_horizon), NotLater)
  IN [k \in 1..Len(pairs) |->
        <<place, pairs[k][1], tech.tech_name, pairs[k][2],
          tech.cost_variable[place][pairs[k][1]], "", "">>]

variable_cost_data(tech, place, time_horizon) ==
  LET pairs == variable_cost_pairs(tech, place, time_horizon)
  IN [k \in 1..Len(pairs) |->
        <<place, pairs[k][1], tech.tech_name, pairs[k][2],
          tech.cost_variable[place][pairs[k][1]], "", "">>]

\* technologies without cost entries are skipped
variable_cost_techs(techs) ==
  LET HasCost(tech) == Cardinality(DOMAIN tech.cost_variable) > 0
  IN SelectSeq(techs, HasCost)

variable_cost_entries(techs, time_horizon) ==
  LET costed == variable_cost_techs(techs)
  IN Concat([i \in 1..Len(costed) |->
       Concat([p \in 1..Len(costed[i].regions) |->
         variable_cost_data(costed[i], costed[i].regions[p], time_horizon)])])

variable_cost_raises(techs, time_horizon) ==
  LET costed == variable_cost_techs(techs)
  IN IF \E i \in 1..Len(costed) : \E p \in 1..Len(costed[i].regions) :
          LET tech == costed[i]
              place == tech.regions[p]
          IN \/ place \notin DOMAIN tech.existing_capacity
             \/ \E k \in 1..Len(variable_cost_pairs(tech, place, time_horizon)) :
                  \/ place \notin DOMAIN tech.cost_variable
                  \/ variable_cost_pairs(tech, place, time_horizon)[k][1]
                       \notin DOMAIN tech.cost_variable[place]
     THEN "KeyError"
     ELSE ""

create_variable_cost ==
  /\ Running("CostVariable")
  /\ LET exc == variable_cost_raises(technology_list, future_years)
     IN IF exc # "" THEN Raise(exc)
        ELSE Write("CostVariable",
                   variable_cost_entries(technology_list, future_years))
  /\ UNCHANGED <<description, first_build, connector, seasons, hours>>

\* the existing vintages are left out of the candidates
fixed_cost_years_future_only(tech, place, time_horizon) == time_horizon

fixed_cost_years(tech, place, time_horizon) ==
  IF Len(tech.existing_capacity[place]) > 0
  THEN Keys(tech.existing_capacity[place]) \o time_horizon
  ELSE time_horizon

\* the lifetime test admits a vintage whose age equals the lifetime
fixed_cost_pairs_inclusive(tech, place, time_horizon) ==
  LET lifetime == tech.tech_lifetime[place]
      Valid(pair) == (pair[1] - pair[2]) =< lifetime
  IN SelectSeq(product(time_horizon,
                       fixed_cost_years(tech, place, time_horizon)), Valid)

fixed_cost_pairs(tech, place, time_horizon) ==
  LET lifetime == tech.tech_lifetime[place]
      Valid(pair) == (pair[1] - pair[2]) < lifetime
  IN SelectSeq(product(time_horizon,
                       fixed_cost_years(tech, place, time_horizon)), Valid)

\* the cost grows with the age of the vintage
fixed_cost_data_aged(tech, place, time_horizon) ==
  LET pairs == fixed_cost_pairs(tech, place, time_horizon)
  IN [k \in 1..Len(pairs) |->
        <<place, pairs[k][1], tech.tech_name, pairs[k][2],
          tech.cost_fixed[place][pairs[k][1]] + (pairs[k][1] - pairs[k][2]),
          "", "">>]

fixed_cost_data(tech, place, time_horizon) ==
  LET pairs == fixed_cost_pairs(tech, place, time_horizon)
  IN [k \in 1..Len(pairs) |->
        <<place, pairs[k][1], tech.tech_name, pairs[k][2],
          tech.cost_fixed[place][pairs[k][1]], "", "">>]

fixed_cost_techs(techs) ==
  LET HasCost(tech) == Cardinality(DOMAIN tech.cost_fixed) > 0
  IN SelectSeq(techs, HasCost)

fixed_cost_entries(techs, time_horizon) ==
  LET costed == fixed_cost_techs(techs)
  IN Concat([i \in 1..Len(costed) |->
       Concat([p \in 1..Len(costed[i].regions) |->
         fixed_cost_data(costed[i], costed[i].regions[p], time_horizon)])])

fixed_cost_raises(techs, time_horizon) ==
  LET costed == fixed_cost_techs(techs)
  IN IF \E i \in 1..Len(costed) : \E p \in 1..Len(costed[i].regions) :
          LET tech == costed[i]
              place == tech.regions[p]
          IN \/ place \notin DOMAIN tech.existing_capacity
             \/ \E k \in 1..Len(fixed_cost_pairs(tech, place, time_horizon)) :
                  \/ place \notin DOMAIN tech.cost_fixed
                  \/ fixed_cost_pairs(tech, place, time_horizon)[k][1]
                       \notin DOMAIN tech.cost_fixed[place]
     THEN "KeyError"
     ELSE ""

create_fixed_cost ==
  /\ Running("CostFixed")
  /\ LET exc == fixed_cost_raises(technology_list, future_years)
     IN IF exc # "" THEN Raise(exc)
        ELSE Write("CostFixed",
                   fixed_cost_entries(technology_list, future_years))
  /\ UNCHANGED <<description, first_build, connector, seasons, hours>>

invest_cost_techs(techs) ==
  LET HasCost(tech) == Cardinality(DOMAIN tech.cost_invest) > 0
  IN SelectSeq(techs, HasCost)

invest_cost_data(tech, place, time_horizon) ==
  [k \in 1..Len(time_horizon) |->
     <<place, tech.tech_name, time_horizon[k], tech.cost_invest[place], "", "">>]

invest_cost_entries(techs, time_horizon) ==
  LET costed == invest_cost_techs(techs)
  IN Concat([i \in 1..Len(costed) |->
       Concat([p \in 1..Len(costed[i].regions) |->
         invest_cost_data(costed[i], costed[i].regions[p], time_horizon)])])

invest_cost_raises(techs, time_horizon) ==
  LET costed == invest_cost_techs(techs)
  IN IF /\ time_horizon # <<>>
        /\ \E i \in 1..Len(costed) : \E p \in 1..Len(costed[i].regions) :
             costed[i].regions[p] \notin DOMAIN costed[i].cost_invest
     THEN "KeyError"
     ELSE ""

create_invest_cost ==
  /\ Running("CostInvest")
  /\ LET exc == invest_cost_raises(technology_list, future_years)
     IN IF exc # "" THEN Raise(exc)
        ELSE Write("CostInvest",
                   invest_cost_entries(technology_list, future_years))
  /\ UNCHANGED <<description, first_build, connector, seasons, hours>>

\* no row is written for an existing vintage
efficiency_existing_none(tech, place) == <<>>

\* rows of one technology and region for the vintages of its
\* existing-capacity map; a failing lookup is swallowed (try/except: pass)
efficiency_existing(tech, place) ==
  IF place \in DOMAIN tech.existing_capacity
  THEN LET existing == Keys(tech.existing_capacity[place])
       IN [i \in 1..Len(existing) |->
             <<place, tech.input_comm[place], tech.tech_name, existing[i],
               tech.output_comm[place], tech.efficiency[place], "NULL">>]
  ELSE <<>>

efficiency_future(tech, place, future) ==
  [i \in 1..Len(future) |->
     <<place, tech.input_comm[place], tech.tech_name, future[i],
       tech.output_comm[place], tech.efficiency[place], "NULL">>]

efficiency_entries(techs, future) ==
  Concat([i \in 1..Len(techs) |->
    Concat([p \in 1..Len(techs[i].regions) |->
      efficiency_existing(techs[i], techs[i].regions[p])
        \o efficiency_future(techs[i], techs[i].regions[p], future)])])

create_efficiency ==
  /\ Running("Efficiency")
  /\ Write("Efficiency", efficiency_entries(technology_list, future_years))
  /\ UNCHANGED <<description, first_build, connector, seasons, hours>>

\* ------------------------------------------------- demand and time slices
\* zip(data, it) with an iterator it that has `remaining` items left takes
\* this many pairs, and this many items from the iterator
zip_len(data, remaining) == Min(Len(data), remaining)

\* cursor.execute(table_command), then one executemany per batch, then
\* connector.commit(): the first batch the store rejects raises, and nothing
\* of the transaction is committed
WriteBatches(t, batches) ==
  LET Bad(b) == ~Accepts(t, Concat(SubSeq(batches, 1, b)))
      failing == {b \in 1..Len(batches) : Bad(b)}
  IN IF connector = "None" THEN Raise("AttributeError")
     ELSE IF t \in created THEN Raise("OperationalError")
     ELSE /\ created' = created \cup {t}
          /\ IF failing = {}
             THEN /\ entries' = [entries EXCEPT ![t] = Concat(batches)]
                  /\ stored' = [stored EXCEPT ![t] = Concat(batches)]
                  /\ error' = ""
                  /\ pc' = After(t)
             ELSE LET b == CHOOSE x \in failing : \A y \in failing : x =< y
                  IN /\ entries' = [entries EXCEPT ![t] =
                                      Concat(SubSeq(batches, 1, b))]
                     /\ stored' = stored
                     /\ error' = "IntegrityError"
                     /\ pc' = pc

\* the rows of one commodity and region: zip(data, years)
demand_db_entry(comm, item, years) ==
  [k \in 1..zip_len(item[2], Len(years)) |->
     <<item[1], years[k], comm.comm_name, item[2][k], comm.units, "">>]

demand_batches(demands, years) ==
  Concat([c \in 1..Len(demands) |->
    [r \in 1..Len(demands[c].demand) |->
       demand_db_entry(demands[c], demands[c].demand[r], years)]])

create_demand_table ==
  /\ Running("Demand")
  /\ WriteBatches("Demand", demand_batches(demand_list, future_years))
  /\ UNCHANGED <<description, first_build, connector, seasons, hours>>

RECURSIVE slices_taken(_, _, _)
\* how many items of the shared time_slices iterator (n items in all) the
\* first r regions of a map have consumed
slices_taken(items, r, n) ==
  IF r = 0 THEN 0
  ELSE LET before == slices_taken(items, r - 1, n)
       IN before + zip_len(items[r][2], n - before)

\* the rows of region r of one commodity: zip(data, time_slices), where
\* time_slices is the iterator created once per commodity
distribution_db_entry(comm, r, time_slices) ==
  LET item == comm.distribution[r]
      pos == slices_taken(comm.distribution, r - 1, Len(time_slices))
  IN [k \in 1..zip_len(item[2], Len(time_slices) - pos) |->
        <<item[1], time_slices[pos + k][1][1], time_slices[pos + k][2][1],
          comm.comm_name, item[2][k], comm.units>>]

distribution_batches(demands, seasons_arg, hours_arg) ==
  Concat([c \in 1..Len(demands) |->
    [r \in 1..Len(demands[c].distribution) |->
       distribution_db_entry(demands[c], r, product(hours_arg, seasons_arg))]])

create_demand_specific_distribution ==
  /\ Running("DemandSpecificDistribution")
  /\ WriteBatches("DemandSpecificDistribution",
                  distribution_batches(demand_list, seasons, hours))
  /\ UNCHANGED <<description, first_build, connector, seasons, hours>>

\* a list or array is used as it is, a scalar becomes
\* np.ones(len(hours) * len(seasons)) * data
capacity_factor_values(data, seasons_arg, hours_arg) ==
  IF data.kind = "list" THEN data.values
  ELSE [k \in 1..(Len(hours_arg) * Len(seasons_arg)) |-> data.value]

capacity_factor_items(tech, seasons_arg, hours_arg) ==
  [r \in 1..Len(tech.capacity_factor_tech) |->
     <<tech.capacity_factor_tech[r][1],
       capacity_factor_values(tech.capacity_factor_tech[r][2],
                              seasons_arg, hours_arg)>>]

\* the rows of place r of one technology: zip(data, time_slices), where
\* time_slices is the iterator created once per technology
capacity_factor_db_entry(tech, r, seasons_arg, hours_arg) ==
  LET items == capacity_factor_items(tech, seasons_arg, hours_arg)
      time_slices == product(hours_arg, seasons_arg)
      pos == slices_taken(items, r - 1, Len(time_slices))
  IN [k \in 1..zip_len(items[r][2], Len(time_slices) - pos) |->
        <<items[r][1], time_slices[pos + k][1][1], time_slices[pos + k][2][1],
          tech.tech_name, items[r][2][k], "">>]

capacity_factor_batches(techs, seasons_arg, hours_arg) ==
  Concat([i \in 1..Len(techs) |->
    [r \in 1..Len(techs[i].capacity_factor_tech) |->
       capacity_factor_db_entry(techs[i], r, seasons_arg, hours_arg)]])

create_capacity_factor_tech ==
  /\ Running("CapacityFactorTech")
  /\ WriteBatches("CapacityFactorTech",
                  capacity_factor_batches(technology_list, seasons, hours))
  /\ UNCHANGED <<description, first_build, connector, seasons, hours>>

\* ------------------------------------------------------------ the build
\* the build has ended: every writer has returned, or one has raised
Finished == pc = "done" \/ error # ""

\* what a build leaves behind: the store and the way the build ended
Outcome ==
  [created |-> created, entries |-> entries, stored |-> stored,
   seasons |-> seasons, hours |-> hours, pc |-> pc, error |-> error]

\* the second build writes into the database of the first one
rebuild_same_store ==
  /\ Finished
  /\ first_build = <<>>
  /\ first_build' = <<Outcome>>
  /\ connector' = "None"
  /\ seasons' = <<>>
  /\ hours' = <<>>
  /\ pc' = "establish_connection"
  /\ error' = ""
  /\ UNCHANGED <<description, created, entries, stored>>

\* the build is run a second time on the same description, into a fresh
\* database; the outcome of the first build is kept for comparison
rebuild ==
  /\ Finished
  /\ first_build = <<>>
  /\ first_build' = <<Outcome>>
  /\ connector' = "None"
  /\ seasons' = <<>>
  /\ hours' = <<>>
  /\ created' = {}
  /\ entries' = [t \in Tables |-> <<>>]
  /\ stored' = [t \in Tables |-> <<>>]
  /\ pc' = "establish_connection"
  /\ error' = ""
  /\ UNCHANGED description

Next ==
  \/ rebuild
  \/ establish_connection
  \/ create_time_season
  \/ create_time_periods
  \/ create_time_of_day
  \/ create_segfrac
  \/ create_demand_table
  \/ create_demand_specific_distribution
  \/ create_existing_capacity
  \/ create_variable_cost
  \/ create_fixed_cost
  \/ create_invest_cost
  \/ create_efficiency
  \/ create_capacity_factor_tech

\* the store and the build before the connection is established
Fresh ==
  /\ first_build = <<>>
  /\ connector = "None"
  /\ seasons = <<>>
  /\ hours = <<>>
  /\ created = {}
  /\ entries = [t \in Tables |-> <<>>]
  /\ stored = [t \in Tables |-> <<>>]
  /\ pc = "establish_connection"
  /\ error = ""

\* --------------------------------------------------------- descriptions
\* the number of time slices of a description
SliceCount(ns, nh) == IF ns > 0 /\ nh > 0 THEN ns * nh ELSE 0

\* the weight of one slice, 1/(seasons x hours); without slices no row
\* carries the weight
SegFracOf(ns, nh) ==
  IF SliceCount(ns, nh) > 0 THEN <<1, SliceCount(ns, nh)>> ELSE <<1, 1>>

\* a series of m values 10, 20, ..: the k-th value identifies its position
Ramp(m) == [k \in 1..m |-> 10 * k]

\* every region of regs with the same value
Uniform(regs, value) == [p \in 1..Len(regs) |-> <<regs[p], value>>]

\* existing-capacity maps of a technology: each region has no map at all
\* or a map over some of the vintages
ExistingMaps(regs) ==
  UNION {[D -> {CapacityMap(V) : V \in SUBSET Vintages}] :
           D \in SUBSET Range(regs)}

NoExisting(regs) == [r \in Range(regs) |-> <<>>]

\* the technologies of the vintage specification
VintageTechs(name, F) ==
  UNION {{Technology(name, regs, [r \in Range(regs) |-> life], ecap, shape, F,
                     Uniform(regs, Scalar(50))) :
            life \in Lifetimes, ecap \in ExistingMaps(regs),
            shape \in CostShapes} :
         regs \in RegionLists}

\* further technologies of a list: one region, lifetime 20, full costs,
\* existing capacity of vintage 2010
PlainTechs(name, F) ==
  {Technology(name, <<"R1">>, [r \in {"R1"} |-> 20],
              [r \in {"R1"} |-> CapacityMap({2010})], "full", F,
              Uniform(<<"R1">>, Scalar(50)))}

RECURSIVE PlainLists(_, _, _)
\* the lists of n plain technologies named TechPool[first], ..
PlainLists(first, n, F) ==
  IF n = 0 THEN {<<>>}
  ELSE {<<t>> \o rest : t \in PlainTechs(TechPool[first], F),
                        rest \in PlainLists(first + 1, n - 1, F)}

TechLists(F) ==
  {<<t>> \o rest : t \in VintageTechs(TechPool[1], F),
                   rest \in UNION {PlainLists(2, n, F) : n \in 0..(MaxTechs - 1)}}

PlainDemand(name, F) ==
  DemandCommodity(name, Uniform(<<"R1">>, Ramp(Len(F))), <<>>)

InitVintage ==
  /\ output_db = "reachable"
  /\ N_seasons = 1
  /\ N_hours = 1
  /\ segfrac = SegFracOf(N_seasons, N_hours)
  /\ future_years \in {FutureYears(n) : n \in 1..MaxPeriods}
  /\ technology_list \in TechLists(future_years)
  /\ demand_list = <<PlainDemand("ELC", future_years)>>
  /\ Fresh

Spec == InitVintage /\ [][Next]_vars

\* the time-period specification: longer horizons, one technology in one
\* region without cost entries
InitTime ==
  /\ output_db = "reachable"
  /\ N_seasons = 1
  /\ N_hours = 1
  /\ segfrac = SegFracOf(N_seasons, N_hours)
  /\ future_years \in {FutureYears(n) : n \in 1..HorizonLen}
  /\ technology_list \in
       {<<Technology("T1", <<"R1">>, [r \in {"R1"} |-> life],
                     [r \in {"R1"} |-> CapacityMap(V)], "none", future_years,
                     Uniform(<<"R1">>, Scalar(50)))>> :
          life \in Lifetimes, V \in SUBSET Vintages}
  /\ demand_list = <<PlainDemand("ELC", future_years)>>
  /\ Fresh

SpecTime == InitTime /\ [][Next]_vars

\* series inputs over n coordinates: one value short, exact, one value long
SeriesChoices(n) == {Ramp(m) : m \in {n - 1, n, n + 1}}

\* per-region maps over the regions of regs, each region with one of choices
RegionMaps(regs, choices) ==
  {[p \in 1..Len(regs) |-> <<regs[p], f[p]>>] : f \in [1..Len(regs) -> choices]}

\* demand commodities of the slice specification
SliceDemands(name, F, n) ==
  UNION {{DemandCommodity(name, Uniform(regs, Ramp(Len(F))), dist) :
            dist \in RegionMaps(regs, SeriesChoices(n))} :
         regs \in RegionLists}

\* technologies of the slice specification: no existing capacity, no costs
SliceTechs(name, F, n) ==
  UNION {{Technology(name, regs, [r \in Range(regs) |-> 20], NoExisting(regs),
                     "none", F, cf) :
            cf \in RegionMaps(regs, {Scalar(50)} \cup
                                    {Series(v) : v \in SeriesChoices(n)})} :
         regs \in RegionLists}

InitSlice ==
  /\ output_db = "reachable"
  /\ N_seasons \in 1..MaxSeasons
  /\ N_hours \in 1..MaxHours
  /\ segfrac = SegFracOf(N_seasons, N_hours)
  /\ future_years = FutureYears(2)
  /\ technology_list \in
       {<<t>> : t \in SliceTechs("T1", future_years, N_seasons * N_hours)}
  /\ demand_list \in
       {<<c>> : c \in SliceDemands("ELC", future_years, N_seasons * N_hours)}
  /\ Fresh

SpecSlice == InitSlice /\ [][Next]_vars

\* the shape specification: season and hour counts, horizons and series
\* lengths at and past the edge of what the builder is documented to accept,
\* and a database that may be unreachable; one commodity and one technology
\* in one region
ShapeDemands(F, n) ==
  {DemandCommodity("ELC", Uniform(<<"R1">>, d), Uniform(<<"R1">>, v)) :
     d \in SeriesChoices(Len(F)), v \in SeriesChoices(n)}

ShapeTechs(F, n) ==
  {Technology("T1", <<"R1">>, [r \in {"R1"} |-> 20], NoExisting(<<"R1">>),
              "none", F, Uniform(<<"R1">>, cf)) :
     cf \in {Scalar(50)} \cup {Series(v) : v \in SeriesChoices(n)}}

InitShape ==
  /\ output_db \in {"reachable", "unreachable"}
  /\ N_seasons \in -1..MaxSeasons
  /\ N_hours \in -1..MaxHours
  /\ segfrac = SegFracOf(N_seasons, N_hours)
  /\ future_years \in {FutureYears(n) : n \in 0..MaxPeriods}
  /\ technology_list \in
       {<<t>> : t \in ShapeTechs(future_years, SliceCount(N_seasons, N_hours))}
  /\ demand_list \in
       {<<c>> : c \in ShapeDemands(future_years, SliceCount(N_seasons, N_hours))}
  /\ Fresh

SpecShape == InitShape /\ [][Next]_vars

\* the range specification: distribution values, capacity factors and
\* efficiencies at and past the edges of their CHECK constraints, for one
\* commodity and one technology in one region over two time slices
RangeValues == {-10, 0, 100, 110}

RangeSeries == {<<a, b>> : a \in RangeValues, b \in RangeValues}

Efficiencies == {-100, 0, 100}

RangeDemands(F) ==
  {DemandCommodity("ELC", Uniform(<<"R1">>, Ramp(Len(F))), Uniform(<<"R1">>, v)) :
     v \in RangeSeries}

RangeTechs(F) ==
  {[Technology("T1", <<"R1">>, [r \in {"R1"} |-> 20], NoExisting(<<"R1">>),
               "none", F, Uniform(<<"R1">>, cf))
      EXCEPT !.efficiency = [r \in {"R1"} |-> e]] :
     cf \in {Scalar(c) : c \in RangeValues} \cup {Series(v) : v \in RangeSeries},
     e \in Efficiencies}

InitRange ==
  /\ output_db = "reachable"
  /\ N_seasons = 1
  /\ N_hours = 2
  /\ segfrac = SegFracOf(N_seasons, N_hours)
  /\ future_years = FutureYears(1)
  /\ technology_list \in {<<t>> : t \in RangeTechs(future_years)}
  /\ demand_list \in {<<c>> : c \in RangeDemands(future_years)}
  /\ Fresh

SpecRange == InitRange /\ [][Next]_vars

\* ------------------------------------------------------------ properties
Index(t) == CHOOSE j \in 1..Len(Pipeline) : Pipeline[j] = t

\* writer t has returned normally
Done(t) == pc = "done" \/ (pc \in Tables /\ Index(pc) > Index(t))

\* writer t has built its entries and reached the store
Ran(t) == Done(t) \/ t \in created

Techs == {technology_list[i] : i \in 1..Len(technology_list)}

TechNamed(name) == CHOOSE tech \in Techs : tech.tech_name = name

\* the vintages of a region's existing-capacity map (none if there is no map)
ExistingOf(tech, place) ==
  IF place \in DOMAIN tech.existing_capacity
  THEN Range(Keys(tech.existing_capacity[place]))
  ELSE {}

\* surviving(E) = {v in keys(E) : (first - v) < L}
Surviving(tech, place) ==
  {v \in ExistingOf(tech, place) :
     (future_years[1] - v) < tech.tech_lifetime[place]}

\* the positions of the rows of a table that belong to a region and technology
RowsOf(rows, place, name, techcol) ==
  {i \in 1..Len(rows) : rows[i][1] = place /\ rows[i][techcol] = name}

\* C1: once create_existing_capacity has returned, for every technology and
\* every region it operates in, ExistingCapacity holds exactly one row per
\* vintage v of the region's existing-capacity map with
\* (first_future_year - v) < lifetime, and no row for any other vintage.
C1_ExistingCapacityRows ==
  Done("ExistingCapacity") =>
    LET rows == stored["ExistingCapacity"]
    IN /\ \A i \in 1..Len(rows) :
            \E tech \in Techs :
              /\ rows[i][2] = tech.tech_name
              /\ rows[i][1] \in Range(tech.regions)
              /\ rows[i][3] \in Surviving(tech, rows[i][1])
       /\ \A tech \in Techs : \A place \in Range(tech.regions) :
            \A v \in Surviving(tech, place) :
              Cardinality({i \in RowsOf(rows, place, tech.tech_name, 2) :
                             rows[i][3] = v}) = 1

\* a technology with a retired and a surviving vintage in one region has
\* been written
C1_Witness ==
  /\ Done("ExistingCapacity")
  /\ \E tech \in Techs : \E place \in Range(tech.regions) :
       /\ Surviving(tech, place) # {}
       /\ ExistingOf(tech, place) \ Surviving(tech, place) # {}

CostTables == {"CostVariable", "CostFixed"}

\* C2: every row (region, period, tech, vintage) handed to or stored in
\* CostVariable or CostFixed satisfies (period - vintage) < lifetime of that
\* technology in that region.
C2_CostRowsWithinLifetime ==
  \A t \in CostTables : \A rows \in {entries[t], stored[t]} :
    \A i \in 1..Len(rows) :
      (rows[i][2] - rows[i][4]) < TechNamed(rows[i][3]).tech_lifetime[rows[i][1]]

\* both cost tables hold rows although some candidate pair failed the test
C2_Witness ==
  /\ Done("CostFixed")
  /\ stored["CostVariable"] # <<>>
  /\ stored["CostFixed"] # <<>>
  /\ \E tech \in Techs : \E place \in Range(tech.regions) :
       \E p \in Range(future_years) :
         \E v \in ExistingOf(tech, place) \cup Range(future_years) :
           /\ DOMAIN tech.cost_variable # {}
           /\ ~((p - v) < tech.tech_lifetime[place])

CostOf(tech, t) == IF t = "CostVariable" THEN tech.cost_variable ELSE tech.cost_fixed

\* {(p, v) : p in F, v in surviving(E) \cup F, (p - v) < L}
ValidPairs(tech, place) ==
  {pv \in Range(future_years)
            \X (Surviving(tech, place) \cup Range(future_years)) :
     (pv[1] - pv[2]) < tech.tech_lifetime[place]}

\* C3: for every technology with cost entries and every region, the set of
\* (period, vintage) keys handed to CostVariable (CostFixed) is
\* {(p, v) : p in F, v in surviving(E) \cup F, (p - v) < L}; no historically
\* retired vintage appears in a cost table.  When the writer returns, the
\* rows it handed over are the rows stored.
C3_CostKeySet ==
  \A t \in CostTables :
    /\ Ran(t) =>
         \A tech \in Techs : \A place \in Range(tech.regions) :
           DOMAIN CostOf(tech, t) # {} =>
             {<<entries[t][i][2], entries[t][i][4]>> :
                i \in RowsOf(entries[t], place, tech.tech_name, 3)}
               = ValidPairs(tech, place)
    /\ Done(t) => stored[t] = entries[t]

\* both cost writers ran for a technology with cost entries that has a
\* retired and a surviving existing vintage
C3_Witness ==
  /\ Ran("CostVariable")
  /\ Ran("CostFixed")
  /\ \E tech \in Techs : \E place \in Range(tech.regions) :
       /\ DOMAIN tech.cost_variable # {}
       /\ DOMAIN tech.cost_fixed # {}
       /\ Surviving(tech, place) # {}
       /\ ExistingOf(tech, place) \ Surviving(tech, place) # {}
       /\ ValidPairs(tech, place) # {}

\* every lifetime of the description is positive
PositiveLifetimes ==
  \A tech \in Techs : \A place \in Range(tech.regions) :
    tech.tech_lifetime[place] > 0

\* C4: for every technology and region, the vintages of the Efficiency rows
\* are exactly surviving(E) \cup F: no row for an existing vintage that is
\* historically retired.  (Stated for positive lifetimes.)
C4_EfficiencyVintages ==
  (PositiveLifetimes /\ Ran("Efficiency")) =>
    \A tech \in Techs : \A place \in Range(tech.regions) :
      {entries["Efficiency"][i][4] :
         i \in RowsOf(entries["Efficiency"], place, tech.tech_name, 3)}
        = Surviving(tech, place) \cup Range(future_years)

VintageTables ==
  {"ExistingCapacity", "CostInvest", "Efficiency", "CostVariable", "CostFixed"}

\* C5: the rows emitted for ExistingCapacity, CostInvest, Efficiency,
\* CostVariable and CostFixed have pairwise distinct primary keys.
\* (Stated for positive lifetimes.)
C5_DistinctPrimaryKeys ==
  PositiveLifetimes =>
    \A t \in VintageTables : DistinctKeys(t, entries[t])

\* the t_periods values of time_periods
Periods == {stored["time_periods"][i][1] : i \in 1..Len(stored["time_periods"])}

Column(t, c) == {stored[t][i][c] : i \in 1..Len(stored[t])}

\* C6: after the build, every vintage value of ExistingCapacity, Efficiency,
\* CostInvest, CostVariable and CostFixed and every periods value of Demand,
\* CostVariable and CostFixed is a t_periods value of time_periods.
\* (Stated for positive lifetimes.)
C6_NoDanglingPeriod ==
  (PositiveLifetimes /\ pc = "done") =>
    /\ Column("ExistingCapacity", 3) \subseteq Periods
    /\ Column("Efficiency", 4) \subseteq Periods
    /\ Column("CostInvest", 3) \subseteq Periods
    /\ Column("CostVariable", 4) \subseteq Periods
    /\ Column("CostFixed", 4) \subseteq Periods
    /\ Column("Demand", 2) \subseteq Periods
    /\ Column("CostVariable", 2) \subseteq Periods
    /\ Column("CostFixed", 2) \subseteq Periods

SliceTables == {"DemandSpecificDistribution", "CapacityFactorTech"}

\* C7: every row of DemandSpecificDistribution and CapacityFactorTech has a
\* season_name that is a t_season value of time_season and a
\* time_of_day_name that is a t_day value of time_of_day.
C7_SliceLabelsExist ==
  \A t \in SliceTables : \A i \in 1..Len(stored[t]) :
    /\ stored[t][i][2] \in Column("time_season", 1)
    /\ stored[t][i][3] \in Column("time_of_day", 1)

\* the series of the first region of each commodity and technology, with
\* the table it is written to and the name in the fourth column
FirstSeries ==
  {<<"DemandSpecificDistribution", c.comm_name, c.distribution[1][1],
     c.distribution[1][2]>> :
     c \in {demand_list[i] : i \in {j \in 1..Len(demand_list) :
                                      demand_list[j].distribution # <<>>}}}
  \cup
  {<<"CapacityFactorTech", tech.tech_name, tech.capacity_factor_tech[1][1],
     capacity_factor_values(tech.capacity_factor_tech[1][2], seasons, hours)>> :
     tech \in {x \in Techs : x.capacity_factor_tech # <<>>}}

\* C8: the k-th value (0-based) of a region's series is stored in the row
\* whose time_of_day_name is H(k div S + 1) and whose season_name is
\* S(k mod S + 1), S being the number of seasons.
C8_HourSeasonNesting ==
  \A fs \in FirstSeries :
    Done(fs[1]) =>
      \A k \in 0..(Min(Len(fs[4]), N_seasons * N_hours) - 1) :
        \E i \in 1..Len(stored[fs[1]]) :
          LET row == stored[fs[1]][i]
          IN /\ row[1] = fs[3]
             /\ row[4] = fs[2]
             /\ row[5] = fs[4][k + 1]
             /\ row[3] = <<"H", (k \div N_seasons) + 1>>
             /\ row[2] = <<"S", (k % N_seasons) + 1>>

\* every series of a commodity or technology, region by region
AllSeries ==
  UNION {{<<"DemandSpecificDistribution", demand_list[c].comm_name,
            demand_list[c].distribution[r][1],
            demand_list[c].distribution[r][2]>> :
            r \in 1..Len(demand_list[c].distribution)} :
         c \in 1..Len(demand_list)}
  \cup
  UNION {{<<"CapacityFactorTech", tech.tech_name,
            tech.capacity_factor_tech[r][1],
            capacity_factor_values(tech.capacity_factor_tech[r][2],
                                   seasons, hours)>> :
            r \in 1..Len(tech.capacity_factor_tech)} :
         tech \in Techs}

\* C9: every region whose series has length seasons x hours gets exactly one
\* row per (season, hour) pair, in DemandSpecificDistribution and in
\* CapacityFactorTech, also a region that is not the first one processed.
\* The two label columns are compared as a set, whichever column holds which.
C9_OneRowPerSlice ==
  \A fs \in AllSeries :
    (Done(fs[1]) /\ Len(fs[4]) = N_seasons * N_hours) =>
      \A s \in 1..N_seasons : \A h \in 1..N_hours :
        Cardinality({i \in RowsOf(stored[fs[1]], fs[3], fs[2], 4) :
                       {stored[fs[1]][i][2], stored[fs[1]][i][3]}
                         = {<<"S", s>>, <<"H", h>>}}) = 1

RECURSIVE TotalWeight(_)
\* the sum of the numerators of the weights of SegFrac rows
TotalWeight(rows) ==
  IF rows = <<>> THEN 0 ELSE Head(rows)[3][1] + TotalWeight(Tail(rows))

C12_TimeLabels ==
  /\ Done("time_season") =>
       LET rows == stored["time_season"]
       IN /\ Len(rows) = (IF N_seasons > 0 THEN N_seasons ELSE 0)
          /\ \A i \in 1..Len(rows) : rows[i] = << <<"S", i>> >>
          /\ \A i, j \in 1..Len(rows) : i # j => rows[i] # rows[j]
          /\ seasons = rows
  /\ Done("time_of_day") =>
       LET rows == stored["time_of_day"]
       IN /\ Len(rows) = (IF N_hours > 0 THEN N_hours ELSE 0)
          /\ \A i \in 1..Len(rows) : rows[i] = << <<"H", i>> >>
          /\ \A i, j \in 1..Len(rows) : i # j => rows[i] # rows[j]
          /\ hours = rows

\* both label tables were written with at least two labels each
C12_Witness ==
  /\ Done("time_of_day")
  /\ N_seasons >= 2
  /\ N_hours >= 2
  /\ Len(stored["time_season"]) = N_seasons
  /\ Len(stored["time_of_day"]) = N_hours

\* the description is outside what the time structure is documented to accept
InvalidTimeStructure ==
  N_seasons =< 0 \/ N_hours =< 0 \/ future_years = <<>>

\* C13: with a non-positive season count or hour count, or with an empty
\* future-year sequence, the build over a reachable database creates no
\* table at all: it stops in the time structure, and the only error it
\* stops with is a ConfigurationError.
C13_InvalidTimeStructureRejected ==
  (InvalidTimeStructure /\ connector = "conn") =>
    /\ created = {}
    /\ pc = Pipeline[1]
    /\ error \in {"", "ConfigurationError"}

\* every region of every technology has an existing-capacity map
CompleteMaps ==
  \A tech \in Techs : Range(tech.regions) \subseteq DOMAIN tech.existing_capacity

\* the technology has a lifetime L <= 0 in one of its regions
NonPositiveLifetime(tech) ==
  \E place \in Range(tech.regions) : tech.tech_lifetime[place] =< 0

\* C14: when a technology has a lifetime L <= 0 in some region, none of
\* create_existing_capacity, create_variable_cost and create_fixed_cost
\* returns normally or emits a row for that technology, and the build stops
\* there with a ConfigurationError.  (Stated for descriptions in which every
\* region has an existing-capacity map.)
C14_NonPositiveLifetimeRejected ==
  \A tech \in Techs :
    (CompleteMaps /\ NonPositiveLifetime(tech)) =>
      /\ ~Done("ExistingCapacity")
      /\ \A i \in 1..Len(entries["ExistingCapacity"]) :
           entries["ExistingCapacity"][i][2] # tech.tech_name
      /\ \A t \in CostTables : \A i \in 1..Len(entries[t]) :
           entries[t][i][3] # tech.tech_name
      /\ pc = "ExistingCapacity" => error \in {"", "ConfigurationError"}

\* C15: a per-region series with fewer values than its coordinate sequence
\* (seasons x hours slices for DemandSpecificDistribution and
\* CapacityFactorTech, the future years for Demand) stops the build with a
\* ConfigurationError: the writer of that table never returns normally.
\* (Stated for positive season and hour counts and a future year.)
C15_ShortSeriesRejected ==
  ~InvalidTimeStructure =>
    /\ \A fs \in AllSeries :
         (fs[1] \in created /\ Len(fs[4]) < N_seasons * N_hours) =>
           (~Done(fs[1]) /\ error = "ConfigurationError")
    /\ \A c \in 1..Len(demand_list) : \A r \in 1..Len(demand_list[c].demand) :
         ("Demand" \in created
            /\ Len(demand_list[c].demand[r][2]) < Len(future_years)) =>
           (~Done("Demand") /\ error = "ConfigurationError")

\* C16: once create_capacity_factor_tech has returned, every region of a
\* technology whose capacity factor is a scalar c has exactly seasons x hours
\* rows in CapacityFactorTech, one per (season, hour) pair, each with the
\* value c.  The two label columns are compared as a set, whichever column
\* holds which.
C16_ScalarBroadcast ==
  Done("CapacityFactorTech") =>
    \A tech \in Techs : \A r \in 1..Len(tech.capacity_factor_tech) :
      LET item == tech.capacity_factor_tech[r]
          rows == stored["CapacityFactorTech"]
          mine == RowsOf(rows, item[1], tech.tech_name, 4)
      IN item[2].kind = "scalar" =>
           /\ Cardinality(mine) = N_seasons * N_hours
           /\ \A i \in mine : rows[i][5] = item[2].value
           /\ \A s \in 1..N_seasons : \A h \in 1..N_hours :
                Cardinality({i \in mine :
                               {rows[i][2], rows[i][3]}
                                 = {<<"S", s>>, <<"H", h>>}}) = 1

InvestOf(tech, t) == IF t = "CostInvest" THEN tech.cost_invest ELSE CostOf(tech, t)

\* C17: a technology without cost entries for CostVariable, CostFixed or
\* CostInvest has no row in that table once its writer has returned; a
\* region whose cost-variable map is empty has no CostVariable row; and
\* create_variable_cost does not stop with a KeyError (every region having
\* an existing-capacity map, a failed lookup can only be a cost lookup).
\* (Stated for positive lifetimes.)
C17_NoCostNoRows ==
  PositiveLifetimes =>
  /\ \A t \in CostTables \cup {"CostInvest"} :
       Done(t) =>
         \A tech \in Techs :
           DOMAIN InvestOf(tech, t) = {} =>
             \A i \in 1..Len(stored[t]) :
               stored[t][i][IF t = "CostInvest" THEN 2 ELSE 3] # tech.tech_name
  /\ Done("CostVariable") =>
       \A tech \in Techs : \A place \in DOMAIN tech.cost_variable :
         DOMAIN tech.cost_variable[place] = {} =>
           RowsOf(stored["CostVariable"], place, tech.tech_name, 3) = {}
  /\ (CompleteMaps /\ pc = "CostVariable") => error # "KeyError"

ParameterTables ==
  {"ExistingCapacity", "CostVariable", "CostFixed", "CostInvest",
   "Efficiency", "Demand"}

\* C18: once the writer of a parameter table (ExistingCapacity,
\* CostVariable, CostFixed, CostInvest, Efficiency, Demand) has returned,
\* its table exists in the store, also when it has no rows.  (Stated for
\* positive lifetimes.)
C18_EmptyTablesCreated ==
  PositiveLifetimes =>
    \A t \in ParameterTables : Done(t) => t \in created

\* C19: when the creation or the bulk insert of a table has failed, the
\* store holds no table of the build: nothing that the earlier writers
\* committed remains.  (Stated for positive lifetimes.)
C19_NoPartialStore ==
  (PositiveLifetimes /\ error = "IntegrityError") =>
    /\ created = {}
    /\ \A t \in Tables : stored[t] = <<>>

\* C20: with an unreachable database, the build is either still to call
\* establish_connection or has stopped with a ConnectionError; it never
\* goes on with a connector of None and never finishes.
C20_ConnectionFailureSurfaced ==
  output_db = "unreachable" =>
    /\ pc # "done"
    /\ pc # "establish_connection" => error = "ConnectionError"

\* the regions of a technology without existing capacity: the map of the
\* region is empty or absent
NoExistingCapacity(tech) ==
  {place \in Range(tech.regions) : ExistingOf(tech, place) = {}}

VintageWriters == {"ExistingCapacity", "CostVariable", "CostFixed", "Efficiency"}

\* C21: a region of a technology whose existing-capacity map is empty or
\* absent is no error: no vintage writer stops with a KeyError on it, and
\* for that technology and region ExistingCapacity has no row, Efficiency
\* has the future-year rows only and CostVariable and CostFixed have
\* future vintages only.  (Stated for positive lifetimes and technologies
\* without cost entries, so that no cost lookup can fail.)
C21_NoExistingCapacityIsNoError ==
  (PositiveLifetimes /\ \A tech \in Techs : DOMAIN tech.cost_variable = {}) =>
    /\ pc \in VintageWriters => error # "KeyError"
    /\ \A tech \in Techs : \A place \in NoExistingCapacity(tech) :
         /\ RowsOf(entries["ExistingCapacity"], place, tech.tech_name, 2) = {}
         /\ Ran("Efficiency") =>
              {entries["Efficiency"][i][4] :
                 i \in RowsOf(entries["Efficiency"], place, tech.tech_name, 3)}
                = Range(future_years)
         /\ \A t \in CostTables :
              \A i \in RowsOf(entries[t], place, tech.tech_name, 3) :
                entries[t][i][4] \in Range(future_years)

InRange(v) == v >= 0 /\ v =< 100

\* C23: no row stored in CapacityFactorTech or DemandSpecificDistribution
\* has a value outside [0,1] and no row stored in Efficiency has an
\* efficiency <= 0; when a row handed to the store holds such a value, the
\* writer of that table stops with an IntegrityError and the table keeps no
\* row.
C23_ValuesWithinChecks ==
  /\ \A t \in SliceTables : \A i \in 1..Len(stored[t]) : InRange(stored[t][i][5])
  /\ \A i \in 1..Len(stored["Efficiency"]) : stored["Efficiency"][i][6] > 0
  /\ \A t \in SliceTables :
       (\E i \in 1..Len(entries[t]) : ~InRange(entries[t][i][5])) =>
         (pc = t /\ error = "IntegrityError" /\ stored[t] = <<>>)
  /\ (\E i \in 1..Len(entries["Efficiency"]) : entries["Efficiency"][i][6] =< 0) =>
       (pc = "Efficiency" /\ error = "IntegrityError"
          /\ stored["Efficiency"] = <<>>)

\* an efficiency of 0 was rejected after a distribution with the boundary
\* values 0 and 1 had been stored
C23_Witness ==
  /\ pc = "Efficiency"
  /\ error = "IntegrityError"
  /\ \E tech \in Techs : tech.efficiency["R1"] = 0
  /\ {stored["DemandSpecificDistribution"][i][5] :
        i \in 1..Len(stored["DemandSpecificDistribution"])} = {0, 100}

\* C24: once create_demand_table has returned, for every demand commodity
\* and every region of its demand map the Demand table holds exactly one
\* row per future year, the i-th value with the i-th year, and the
\* (region, period, demand_comm) keys are pairwise distinct.  (Stated for
\* positive season and hour counts and a future year.)
C24_DemandRowPerYear ==
  (Done("Demand") /\ ~InvalidTimeStructure) =>
    LET rows == stored["Demand"]
    IN /\ DistinctKeys("Demand", rows)
       /\ \A c \in 1..Len(demand_list) : \A r \in 1..Len(demand_list[c].demand) :
            LET item == demand_list[c].demand[r]
                mine == RowsOf(rows, item[1], demand_list[c].comm_name, 3)
            IN /\ Cardinality(mine) = Len(future_years)
               /\ \A k \in 1..Len(future_years) :
                    /\ k =< Len(item[2])
                    /\ \E i \in mine : /\ rows[i][2] = future_years[k]
                                        /\ rows[i][4] = item[2][k]

\* the rows of a cost table for period p and vintage v of a technology in a
\* region
PairRows(rows, tech, place, p, v) ==
  {i \in RowsOf(rows, place, tech.tech_name, 3) :
     rows[i][2] = p /\ rows[i][4] = v}

\* C25: the validity test has no vintage <= period guard: for a technology
\* with cost entries and a positive lifetime, every pair (p, v) of future
\* years with v > p is among the rows create_variable_cost and
\* create_fixed_cost hand to the store, and among the rows stored once the
\* writer has returned.
C25_LaterVintagesCosted ==
  \A t \in CostTables : \A tech \in Techs : \A place \in Range(tech.regions) :
    (DOMAIN CostOf(tech, t) # {} /\ tech.tech_lifetime[place] > 0) =>
      \A p \in Range(future_years) : \A v \in Range(future_years) :
        v > p =>
          /\ Ran(t) => PairRows(entries[t], tech, place, p, v) # {}
          /\ Done(t) => PairRows(stored[t], tech, place, p, v) # {}

\* both cost tables store the pair (2020, 2030) of a technology with a
\* positive lifetime
C25_Witness ==
  /\ Done("CostFixed")
  /\ \E tech \in Techs : \E place \in Range(tech.regions) :
       /\ tech.tech_lifetime[place] > 0
       /\ \A t \in CostTables : PairRows(stored[t], tech, place, 2020, 2030) # {}

\* the Efficiency rows among rows that match an ExistingCapacity row
Matching(rows, ec) ==
  {j \in 1..Len(rows) :
     rows[j][1] = ec[1] /\ rows[j][3] = ec[2] /\ rows[j][4] = ec[3]}

\* C26: every (region, tech, vintage) row of ExistingCapacity has a row with
\* the same region, tech and vintage among the rows create_efficiency hands
\* to the store, and in the Efficiency table once create_efficiency has
\* returned.
C26_ExistingCapacityHasEfficiency ==
  \A i \in 1..Len(stored["ExistingCapacity"]) :
    /\ Ran("Efficiency") =>
         Matching(entries["Efficiency"], stored["ExistingCapacity"][i]) # {}
    /\ Done("Efficiency") =>
         Matching(stored["Efficiency"], stored["ExistingCapacity"][i]) # {}

\* Efficiency was written while ExistingCapacity holds a vintage before the
\* first future year
C26_Witness ==
  /\ Done("Efficiency")
  /\ \E i \in 1..Len(stored["ExistingCapacity"]) :
       stored["ExistingCapacity"][i][3] < future_years[1]

\* the (region, period, tech, vintage) keys of the rows of a technology
CostKeys(rows, tech) ==
  {<<rows[i][1], rows[i][2], rows[i][3], rows[i][4]>> :
     i \in {j \in 1..Len(rows) : rows[j][3] = tech.tech_name}}

BothCosts(tech) == DOMAIN tech.cost_variable # {} /\ DOMAIN tech.cost_fixed # {}

\* C27: for a technology with variable and fixed cost entries,
\* create_variable_cost and create_fixed_cost emit the same set of
\* (region, period, tech, vintage) keys, and the two tables hold the same
\* keys once create_fixed_cost has returned.
C27_SameCostKeys ==
  \A tech \in Techs :
    BothCosts(tech) =>
      /\ (Ran("CostVariable") /\ Ran("CostFixed")) =>
           CostKeys(entries["CostVariable"], tech)
             = CostKeys(entries["CostFixed"], tech)
      /\ Done("CostFixed") =>
           CostKeys(stored["CostVariable"], tech)
             = CostKeys(stored["CostFixed"], tech)

\* both cost tables were written for a technology with both costs and a
\* surviving existing vintage
C27_Witness ==
  /\ Done("CostFixed")
  /\ \E tech \in Techs : \E place \in Range(tech.regions) :
       /\ BothCosts(tech)
       /\ Surviving(tech, place) # {}
       /\ CostKeys(stored["CostFixed"], tech) # {}

\* C28: in every CostVariable (CostFixed) row (region, period, tech,
\* vintage) the cost is the technology's cost_variable (cost_fixed) entry
\* for that region and that period; rows of one region, period and
\* technology carry the same cost whatever their vintage.
C28_CostOfPeriod ==
  \A t \in CostTables : \A rows \in {entries[t], stored[t]} :
    \A i \in 1..Len(rows) :
      /\ rows[i][5] = CostOf(TechNamed(rows[i][3]), t)[rows[i][1]][rows[i][2]]
      /\ \A j \in 1..Len(rows) :
           (rows[j][1] = rows[i][1] /\ rows[j][2] = rows[i][2]
              /\ rows[j][3] = rows[i][3]) => rows[j][5] = rows[i][5]

\* both cost tables store two vintages of one period, and two periods with
\* different costs
C28_Witness ==
  /\ Done("CostFixed")
  /\ \A t \in CostTables :
       \E i, j \in 1..Len(stored[t]) :
         /\ stored[t][i][2] = stored[t][j][2]
         /\ stored[t][i][4] # stored[t][j][4]
  /\ \A t \in CostTables :
       \E i, j \in 1..Len(stored[t]) : stored[t][i][5] # stored[t][j][5]

====
